---------------------------- MODULE Spec2Model ----------------------------
(***************************************************************************)
(* A model of the curalink server (src/index.js, and the second server    *)
(* file src/unnamed/part_000 where the two differ).                        *)
(*                                                                         *)
(* Spec     the Auth routes over the Credential Store: register, login,    *)
(*          and the two typed profile fetches.  Several requests are in    *)
(*          flight at once; a handler is interleaved with the others at    *)
(*          its store operations (its awaits).                             *)
(* SpecAgg  the research-data routes and the AI summary route: one         *)
(*          request, its upstream calls and what it answers.               *)
(***************************************************************************)
EXTENDS Integers, Sequences, FiniteSets, TLC

VARIABLES
    store,      \* the User table: a set of user records
    reqs,       \* auth requests: slot -> [route, pc, body, resp, writes, after]
    aroute,     \* research-data request: its route ("none" before it arrives)
    apc,        \* its position: idle, awaitSearch, awaitSummary, awaitDetail,
                \*   awaitCall, awaitRetry, done (handler returned), rejected
    ain,        \* its input: [param |-> the query or body parameter], for the
                \*   summary route also the server file and the API key
    aloc,       \* its locals: the ids, or [results, i, detailed]
    calls,      \* the upstream calls it has issued, in order, each with
                \*   its outcome once it has returned
    aresp       \* the responses it has written, in order

authVars == <<store, reqs>>
aggVars == <<aroute, apc, ain, aloc, calls, aresp>>
vars == <<store, reqs, aroute, apc, ain, aloc, calls, aresp>>

---------------------------------------------------------------------------
(* Bounds *)

\* auth requests per behaviour
MaxReq == 2
\* latest issuance instant of a token, in days
MaxTime == 1
\* candidates a registry search may return
MaxCandidates == 6
\* ids a literature search may return, items a single-call upstream may return
MaxItems == 2

---------------------------------------------------------------------------
(* JavaScript values *)

Undefined == [t |-> "undefined"]
Null == [t |-> "null"]
NaN == [t |-> "NaN"]
Str(s) == [t |-> "string", s |-> s]
Num(n) == [t |-> "number", n |-> n]

\* Number(v): undefined and non-numeric text give NaN, numeric text its number
\* (a string is numeric here when it is one of the keys of NumericText)
NumericText == [s \in {"34", "0"} |-> IF s = "34" THEN 34 ELSE 0]
Number(v) ==
    IF v.t = "number" THEN v
    ELSE IF v.t = "string" /\ v.s \in DOMAIN NumericText THEN Num(NumericText[v.s])
    ELSE IF v.t = "null" THEN Num(0)
    ELSE NaN

\* a || b on the values used here: NaN, 0, "", null and undefined are falsy
Falsy(v) ==
    \/ v.t \in {"undefined", "null", "NaN"}
    \/ v.t = "number" /\ v.n = 0
    \/ v.t = "string" /\ v.s = ""
OrElse(a, b) == IF Falsy(a) THEN b ELSE a

---------------------------------------------------------------------------
(* Request inputs *)

Emails == {"a@x.org", "b@x.org"}
Passwords == {"pw1", "pw2"}
validUserTypes == {"PATIENT", "RESEARCHER"}
validGenders == {"MALE", "FEMALE", "OTHER"}
UserTypeInputs == validUserTypes \cup {"DOCTOR"}
\* one valid gender and one that is no member of the enum: the handler only
\* tests membership and carries the value
GenderInputs == {"FEMALE", "UNKNOWN"}

\* the typed extras of a register body: none supplied, or all supplied
\* (the age as the text a form sends)
ExtrasInputs ==
    { [fieldType |-> Undefined, age |-> Undefined,
       condition |-> Undefined, allergies |-> Undefined],
      [fieldType |-> Str("oncology"), age |-> Str("34"),
       condition |-> Str("asthma"), allergies |-> Str("pollen")] }

RegisterBodies ==
    { [firstName |-> "Ada", lastName |-> "Lee", email |-> e, password |-> p,
       gender |-> g, userType |-> u, fieldType |-> x.fieldType, age |-> x.age,
       condition |-> x.condition, allergies |-> x.allergies] :
      e \in Emails, p \in Passwords, g \in GenderInputs, u \in UserTypeInputs,
      x \in ExtrasInputs }

LoginBodies == [email : Emails, password : Passwords]
FetchBodies == [email : Emails]
Times == 0..MaxTime
ReqIds == 1..MaxReq

NoBody == [none |-> TRUE]
IdleReq ==
    [route |-> "none", pc |-> "idle", body |-> NoBody, resp |-> <<>>,
     writes |-> 0, after |-> {}]

---------------------------------------------------------------------------
(* The Credential Store and the hashing and signing primitives *)

\* prisma.user.findUnique({ where: { email } }): the record, or null
FindUnique(s, email) ==
    IF \E u \in s : u.email = email
    THEN CHOOSE u \in s : u.email = email
    ELSE Null

\* the unique index on User.email: a create with a present email is refused
UniqueViolation(s, email) == \E u \in s : u.email = email

\* the id the store gives the next record
NextId(s) == Cardinality(s) + 1

\* an undefined field of a create is stored as NULL
Column(v) == IF v.t = "undefined" THEN Null ELSE v

\* bcrypt.hash(password, 10): one-way, never the password itself
BcryptHash(password) == [alg |-> "bcrypt", rounds |-> 10, of |-> password]

\* bcrypt.compare(password, digest)
BcryptCompare(password, digest) == digest = BcryptHash(password)

\* the expiresIn: "7d" of jwt.sign, in days
ExpiresInDays == 7

\* a mutant of JwtSign: expiresIn read in the wrong unit (one day)
JwtSign_OneDay(payload, now) ==
    [claims |-> payload, iat |-> now, exp |-> now + 1]

\* jwt.sign(payload, secret, { expiresIn: "7d" }) at instant now
JwtSign(payload, now) ==
    [claims |-> payload, iat |-> now, exp |-> now + ExpiresInDays]

---------------------------------------------------------------------------
(* Responses *)

ErrorResponse(status, msg) == [status |-> status, body |-> [error |-> msg]]

\* the requests that have been answered 201 so far
Completed201 ==
    { q \in ReqIds : reqs[q].resp # <<>> /\ reqs[q].resp[1].status = 201 }

\* request r arrives: the slots number the requests in their order of arrival
Arrives(r) ==
    /\ reqs[r].pc = "idle"
    /\ \A q \in 1..(r - 1) : reqs[q].pc # "idle"

\* the handler of r writes a response and returns; w counts its store writes
Answer(r, route, body, response, w) ==
    /\ reqs' = [reqs EXCEPT ![r] =
           [route |-> route, pc |-> "done", body |-> body,
            resp |-> Append(@.resp, response), writes |-> @.writes + w,
            after |-> IF @.pc = "idle" THEN Completed201 ELSE @.after]]
    /\ UNCHANGED aggVars

---------------------------------------------------------------------------
(* POST /api/register *)

\* a mutant of RegisterData: the typed extras are stored as supplied
RegisterData_NoNulling(b) ==
    [firstName |-> b.firstName,
     lastName |-> b.lastName,
     email |-> b.email,
     password |-> BcryptHash(b.password),
     gender |-> b.gender,
     userType |-> b.userType,
     fieldType |-> Column(b.fieldType),
     age |-> OrElse(Number(b.age), Null),
     condition |-> Column(b.condition),
     allergies |-> Column(b.allergies)]

\* the data of prisma.user.create
RegisterData(b) ==
    [firstName |-> b.firstName,
     lastName |-> b.lastName,
     email |-> b.email,
     password |-> BcryptHash(b.password),
     gender |-> b.gender,
     userType |-> b.userType,
     fieldType |-> IF b.userType = "RESEARCHER" THEN Column(b.fieldType) ELSE Null,
     age |-> IF b.userType = "PATIENT" THEN OrElse(Number(b.age), Null) ELSE Null,
     condition |-> IF b.userType = "PATIENT" THEN Column(b.condition) ELSE Null,
     allergies |-> IF b.userType = "PATIENT" THEN Column(b.allergies) ELSE Null]

\* the created record: the data and the id the store generates
Created(s, data) ==
    [id |-> NextId(s)] @@ data

\* a mutant of RegisterLookup: the enums are checked before the lookup
RegisterLookup_ValidateFirst(r, b) ==
    /\ Arrives(r)
    /\ UNCHANGED store
    /\ IF b.userType \notin validUserTypes
       THEN Answer(r, "register", b, ErrorResponse(400, "Invalid userType"), 0)
       ELSE IF b.gender \notin validGenders
       THEN Answer(r, "register", b, ErrorResponse(400, "Invalid gender"), 0)
       ELSE IF FindUnique(store, b.email) # Null
       THEN Answer(r, "register", b, ErrorResponse(400, "Email already registered"), 0)
       ELSE /\ reqs' = [reqs EXCEPT ![r] =
                   [@ EXCEPT !.route = "register", !.pc = "create", !.body = b,
                             !.after = Completed201]]
            /\ UNCHANGED aggVars

\* a mutant of RegisterLookup: userType is not checked
RegisterLookup_NoUserTypeCheck(r, b) ==
    /\ Arrives(r)
    /\ UNCHANGED store
    /\ IF FindUnique(store, b.email) # Null
       THEN Answer(r, "register", b, ErrorResponse(400, "Email already registered"), 0)
       ELSE IF b.gender \notin validGenders
       THEN Answer(r, "register", b, ErrorResponse(400, "Invalid gender"), 0)
       ELSE /\ reqs' = [reqs EXCEPT ![r] =
                   [@ EXCEPT !.route = "register", !.pc = "create", !.body = b,
                             !.after = Completed201]]
            /\ UNCHANGED aggVars

\* the request arrives; the handler looks the email up, and once the lookup
\* has resolved it checks the two enums, then starts hashing
RegisterLookup(r, b) ==
    /\ Arrives(r)
    /\ UNCHANGED store
    /\ IF FindUnique(store, b.email) # Null
       THEN Answer(r, "register", b, ErrorResponse(400, "Email already registered"), 0)
       ELSE IF b.userType \notin validUserTypes
       THEN Answer(r, "register", b, ErrorResponse(400, "Invalid userType"), 0)
       ELSE IF b.gender \notin validGenders
       THEN Answer(r, "register", b, ErrorResponse(400, "Invalid gender"), 0)
       ELSE /\ reqs' = [reqs EXCEPT ![r] =
                   [@ EXCEPT !.route = "register", !.pc = "create", !.body = b,
                             !.after = Completed201]]
            /\ UNCHANGED aggVars

\* a mutant of RegisterCreate: an upsert keyed by email instead of a create
RegisterCreate_Upsert(r) ==
    /\ reqs[r].pc = "create"
    /\ LET b == reqs[r].body
           data == RegisterData(b)
           old == FindUnique(store, data.email)
           user == IF old = Null THEN Created(store, data)
                   ELSE [id |-> old.id] @@ data
       IN /\ store' = {u \in store : u.email # data.email} \cup {user}
          /\ Answer(r, "register", b,
                    [status |-> 201,
                     body |-> [message |-> "Registered successfully",
                               user |-> user]], 1)

\* the hash resolves and the handler creates the user; a refused create
\* throws into the handler's catch
RegisterCreate(r) ==
    /\ reqs[r].pc = "create"
    /\ LET b == reqs[r].body
           data == RegisterData(b)
           user == Created(store, data)
       IN IF UniqueViolation(store, data.email)
          THEN /\ UNCHANGED store
               /\ Answer(r, "register", b, ErrorResponse(500, "Server error"), 0)
          ELSE /\ store' = store \cup {user}
               /\ Answer(r, "register", b,
                         [status |-> 201,
                          body |-> [message |-> "Registered successfully",
                                    user |-> user]], 1)

---------------------------------------------------------------------------
(* POST /api/login *)

\* a mutant of Login: the digest comparison is skipped
Login_NoCompare(r, b, now) ==
    /\ Arrives(r)
    /\ UNCHANGED store
    /\ LET user == FindUnique(store, b.email)
       IN IF user = Null
          THEN Answer(r, "login", b, ErrorResponse(404, "User not found"), 0)
          ELSE Answer(r, "login", [email |-> b.email, password |-> b.password,
                                   at |-> now],
                      [status |-> 200,
                       body |-> [message |-> "Login successful",
                                 token |-> JwtSign([id |-> user.id,
                                                    email |-> user.email,
                                                    userType |-> user.userType],
                                                   now),
                                 user |-> [id |-> user.id,
                                           email |-> user.email,
                                           userType |-> user.userType,
                                           firstName |-> user.firstName,
                                           lastName |-> user.lastName]]], 0)

\* b is the body; now is the clock when the token is signed, which the
\* request keeps (at) beside its body when a token was issued
Login(r, b, now) ==
    /\ Arrives(r)
    /\ UNCHANGED store
    /\ LET user == FindUnique(store, b.email)
       IN IF user = Null
          THEN Answer(r, "login", b, ErrorResponse(404, "User not found"), 0)
          ELSE IF ~BcryptCompare(b.password, user.password)
          THEN Answer(r, "login", b, ErrorResponse(400, "Invalid credentials"), 0)
          ELSE Answer(r, "login", [email |-> b.email, password |-> b.password,
                                   at |-> now],
                      [status |-> 200,
                       body |-> [message |-> "Login successful",
                                 token |-> JwtSign([id |-> user.id,
                                                    email |-> user.email,
                                                    userType |-> user.userType],
                                                   now),
                                 user |-> [id |-> user.id,
                                           email |-> user.email,
                                           userType |-> user.userType,
                                           firstName |-> user.firstName,
                                           lastName |-> user.lastName]]], 0)

---------------------------------------------------------------------------
(* GET /api/patient/:email and GET /api/researcher/:email *)

FetchTyped(r, route, b, requiredType, notFound) ==
    /\ Arrives(r)
    /\ UNCHANGED store
    /\ LET user == FindUnique(store, b.email)
       IN IF user = Null \/ user.userType # requiredType
          THEN Answer(r, route, b, ErrorResponse(404, notFound), 0)
          ELSE Answer(r, route, b, [status |-> 200, body |-> user], 0)

FetchPatient(r, b) ==
    FetchTyped(r, "patient", b, "PATIENT", "Patient not found")

FetchResearcher(r, b) ==
    FetchTyped(r, "researcher", b, "RESEARCHER", "Researcher not found")

---------------------------------------------------------------------------
(* The Auth specification *)

IdleAgg ==
    /\ aroute = "none"
    /\ apc = "idle"
    /\ ain = NoBody
    /\ aloc = NoBody
    /\ calls = <<>>
    /\ aresp = <<>>

Init ==
    /\ store = {}
    /\ reqs = [r \in ReqIds |-> IdleReq]
    /\ IdleAgg

Next ==
    \/ \E r \in ReqIds, b \in RegisterBodies : RegisterLookup(r, b)
    \/ \E r \in ReqIds : RegisterCreate(r)
    \/ \E r \in ReqIds, b \in LoginBodies, now \in Times : Login(r, b, now)
    \/ \E r \in ReqIds, b \in FetchBodies : FetchPatient(r, b)
    \/ \E r \in ReqIds, b \in FetchBodies : FetchResearcher(r, b)

Spec == Init /\ [][Next]_vars

---------------------------------------------------------------------------
(* Upstream calls of the research-data routes *)

Arr(items) == [t |-> "array", a |-> items]
Template(parts) == [t |-> "template", parts |-> parts]

InFlight == [state |-> "in flight"]

\* a transport-level failure: the awaited call throws; the error carries the
\* upstream's own body
Failure == [ok |-> FALSE, body |-> "raw upstream error body"]
Success(data) == [ok |-> TRUE, data |-> data]

\* the query parameter of a request: absent, empty or a text
ParamInputs == {Undefined, Str(""), Str("glioma")}

\* an upstream record with all the fields the handlers read, and one with none
Items == { [key |-> Str("K1"), title |-> Str("A title")],
           [key |-> Undefined, title |-> Undefined] }
ItemSeqs == UNION { [1..n -> Items] : n \in 0..MaxItems }

\* what a single-call upstream answers: a failure, or a body whose result list
\* is absent or an array of records
ListOutcomes ==
    {Failure} \cup {Success([list |-> Undefined])}
              \cup { Success([list |-> Arr(l)]) : l \in ItemSeqs }

\* the handler issues a call and awaits it
Issued(cs, kind, arg) ==
    Append(cs, [kind |-> kind, arg |-> arg, outcome |-> InFlight])

\* the awaited call, the last one issued, returns
Returned(outcome) == [calls EXCEPT ![Len(calls)].outcome = outcome]

\* the calls still in flight
Pending == { i \in 1..Len(calls) : calls[i].outcome = InFlight }

\* the handler writes a response and returns
Respond(response) ==
    /\ aresp' = Append(aresp, response)
    /\ apc' = "done"

\* a request arrives and is turned down for its missing parameter
Reject(route, param, msg) ==
    /\ apc = "idle"
    /\ aroute' = route
    /\ ain' = [param |-> param]
    /\ Respond(ErrorResponse(400, msg))
    /\ UNCHANGED <<aloc, calls, authVars>>

\* a request arrives and its handler issues its first call
Arrive(route, param, pc, kind, arg) ==
    /\ apc = "idle"
    /\ aroute' = route
    /\ ain' = [param |-> param]
    /\ calls' = Issued(calls, kind, arg)
    /\ apc' = pc
    /\ UNCHANGED <<aloc, aresp, authVars>>

\* the awaited call returns and the handler answers
Finish(outcome, response) ==
    /\ calls' = Returned(outcome)
    /\ Respond(response)
    /\ UNCHANGED <<aroute, ain, aloc, authVars>>

Ok200(body) == [status |-> 200, body |-> body]

---------------------------------------------------------------------------
(* GET /api/patient-data/pubmed *)

PubmedIds == {"101", "102"}
IdLists == UNION { [1..n -> PubmedIds] : n \in 0..MaxItems }
SearchOutcomes ==
    {Failure} \cup {Success([idlist |-> Undefined])}
              \cup { Success([idlist |-> Arr(l)]) : l \in IdLists }

\* the esummary result object for the ids asked for, as its keys in order
SummaryEntry(id) ==
    [key |-> id, uid |-> Str(id), title |-> Str("A title"),
     fulljournalname |-> Undefined, source |-> Str("Lancet"),
     pubdate |-> Str("2024"), authors |-> Undefined]
SummaryResult(ids) ==
    Arr([k \in 1..Len(ids) |-> SummaryEntry(ids[k])] \o <<[key |-> "uids"]>>)
SummaryOutcomes(ids) ==
    {Failure, Success([result |-> Undefined]),
     Success([result |-> SummaryResult(ids)])}

NotUids(e) == e.key # "uids"
Paper(p) ==
    [id |-> p.uid,
     title |-> p.title,
     journal |-> OrElse(p.fulljournalname, p.source),
     pubDate |-> p.pubdate,
     authors |-> p.authors,
     link |-> Template(<<"https://pubmed.ncbi.nlm.nih.gov/", p.uid, "/">>)]
Papers(all) ==
    LET kept == SelectSeq(all.a, NotUids)
    IN [k \in 1..Len(kept) |-> Paper(kept[k])]

PubmedArrive(param) ==
    IF Falsy(param)
    THEN Reject("pubmed", param, "Missing query parameter")
    ELSE Arrive("pubmed", param, "awaitSearch", "esearch", param)

\* a mutant of PubmedSearchReturn: the summary is fetched for an empty id list too
PubmedSearchReturn_NoShortCircuit(outcome) ==
    /\ aroute = "pubmed" /\ apc = "awaitSearch"
    /\ IF ~outcome.ok
       THEN /\ Finish(outcome, ErrorResponse(500, "PubMed fetch failed"))
       ELSE LET ids == OrElse(outcome.data.idlist, Arr(<<>>))
            IN /\ calls' = Issued(Returned(outcome), "esummary", ids.a)
               /\ apc' = "awaitSummary"
               /\ aloc' = [ids |-> ids.a]
               /\ UNCHANGED <<aroute, ain, aresp, authVars>>

\* the id search returns
PubmedSearchReturn(outcome) ==
    /\ aroute = "pubmed" /\ apc = "awaitSearch"
    /\ IF ~outcome.ok
       THEN /\ Finish(outcome, ErrorResponse(500, "PubMed fetch failed"))
       ELSE LET ids == OrElse(outcome.data.idlist, Arr(<<>>))
            IN IF Len(ids.a) = 0
               THEN /\ Finish(outcome, Ok200([results |-> <<>>]))
               ELSE /\ calls' = Issued(Returned(outcome), "esummary", ids.a)
                    /\ apc' = "awaitSummary"
                    /\ aloc' = [ids |-> ids.a]
                    /\ UNCHANGED <<aroute, ain, aresp, authVars>>

\* the summary fetch returns
PubmedSummaryReturn(outcome) ==
    /\ aroute = "pubmed" /\ apc = "awaitSummary"
    /\ IF ~outcome.ok
       THEN Finish(outcome, ErrorResponse(500, "PubMed fetch failed"))
       ELSE LET all == OrElse(outcome.data.result, Arr(<<>>))
            IN Finish(outcome, Ok200([results |-> Papers(all)]))

---------------------------------------------------------------------------
(* GET /api/patient-data/trials *)

Trial(s) ==
    [id |-> s.key,
     title |-> OrElse(s.title, Str("Untitled Trial")),
     status |-> Str("Status Unknown"),
     condition |-> Str("Condition not specified"),
     location |-> Str("No locations listed"),
     url |-> Template(<<"https://clinicaltrials.gov/study/", s.key>>)]

TrialsArrive(param) ==
    Arrive("trials", param, "awaitCall", "studies", OrElse(param, Str("cancer")))

TrialsReturn(outcome) ==
    /\ aroute = "trials" /\ apc = "awaitCall"
    /\ IF ~outcome.ok
       THEN Finish(outcome, ErrorResponse(500, "Failed to fetch Clinical Trials"))
       ELSE LET studies == OrElse(outcome.data.list, Arr(<<>>))
            IN Finish(outcome,
                      Ok200([results |->
                          [k \in 1..Len(studies.a) |-> Trial(studies.a[k])]]))

---------------------------------------------------------------------------
(* GET /api/patient-data/orcid *)

\* the number of search results the handler looks at: results.slice(0, 5)
OrcidCap == 5

OrcidPath(k) == [t |-> "orcid", n |-> k]

\* a search result list: the k-th candidate carries the identifier OrcidPath(k)
\* or none
Candidates(has) ==
    [k \in DOMAIN has |-> [path |-> IF has[k] THEN OrcidPath(k) ELSE Undefined]]
CandidateLists ==
    { Candidates(has) : has \in UNION { [1..n -> BOOLEAN] : n \in 0..MaxCandidates } }
OrcidSearchOutcomes ==
    {Failure} \cup {Success([result |-> Undefined])}
              \cup { Success([result |-> Arr(l)]) : l \in CandidateLists }

\* a profile with a name and one without a person
ProfileOutcomes ==
    {Failure, Success([given |-> Str("Ada"), family |-> Str("Lee")]),
     Success([given |-> Undefined, family |-> Undefined])}

Min(a, b) == IF a < b THEN a ELSE b

\* a mutant of Sliced: the whole result list is walked
Sliced_All(results) == Len(results)

\* the length of results.slice(0, 5)
Sliced(results) == Min(OrcidCap, Len(results))

\* the next candidate of the slice, from position from on, that has an
\* identifier (the loop continues past the others); 0 when there is none
NextWithId(results, from) ==
    LET js == { j \in from..Sliced(results) : ~Falsy(results[j].path) }
    IN IF js = {} THEN 0 ELSE CHOOSE j \in js : \A i \in js : j <= i

\* the record pushed for a profile
Detailed(id, profile) ==
    [id |-> id,
     name |-> IF Falsy(profile.given) /\ Falsy(profile.family) THEN Str("")
              ELSE Template(<<OrElse(profile.given, Str("")), " ",
                              OrElse(profile.family, Str(""))>>),
     biography |-> Str(""),
     works |-> <<>>,
     link |-> Template(<<"https://orcid.org/", id>>)]

OrcidArrive(param) ==
    IF Falsy(param)
    THEN Reject("orcid", param, "Missing name")
    ELSE Arrive("orcid", param, "awaitSearch", "search", param)

\* the loop of the handler from position from on, after the awaited call has
\* returned outcome: the next detail call is issued, or the answer is written
OrcidLoop(outcome, results, from, detailed) ==
    LET j == NextWithId(results, from)
    IN IF j = 0
       THEN Finish(outcome, Ok200([result |-> detailed]))
       ELSE /\ calls' = Issued(Returned(outcome), "detail", results[j].path)
            /\ apc' = "awaitDetail"
            /\ aloc' = [results |-> results, i |-> j, detailed |-> detailed]
            /\ UNCHANGED <<aroute, ain, aresp, authVars>>

\* the search returns
OrcidSearchReturn(outcome) ==
    /\ aroute = "orcid" /\ apc = "awaitSearch"
    /\ IF ~outcome.ok
       THEN Finish(outcome, ErrorResponse(500, "ORCID fetch failed"))
       ELSE LET results == OrElse(outcome.data.result, Arr(<<>>))
            IN IF Len(results.a) = 0
               THEN Finish(outcome, Ok200([result |-> <<>>]))
               ELSE OrcidLoop(outcome, results.a, 1, <<>>)

\* a detail call returns
OrcidDetailReturn(outcome) ==
    /\ aroute = "orcid" /\ apc = "awaitDetail"
    /\ IF ~outcome.ok
       THEN Finish(outcome, ErrorResponse(500, "ORCID fetch failed"))
       ELSE OrcidLoop(outcome, aloc.results, aloc.i + 1,
                      Append(aloc.detailed,
                             Detailed(aloc.results[aloc.i].path, outcome.data)))

---------------------------------------------------------------------------
(* GET /api/patient-data/scholar *)

ScholarArrive(param) ==
    IF Falsy(param)
    THEN Reject("scholar", param, "Missing topic")
    ELSE Arrive("scholar", param, "awaitCall", "google_scholar", param)

ScholarReturn(outcome) ==
    /\ aroute = "scholar" /\ apc = "awaitCall"
    /\ IF ~outcome.ok
       THEN Finish(outcome, ErrorResponse(500, "Scholar fetch failed"))
       ELSE Finish(outcome, Ok200(OrElse(outcome.data.list, Arr(<<>>)).a))

---------------------------------------------------------------------------
(* GET /api/patient-data/researchgate *)

SiteResult(r) == [title |-> r.title, link |-> r.key, snippet |-> Undefined]

ResearchGateArrive(param) ==
    IF Falsy(param)
    THEN Reject("researchgate", param, "Missing topic")
    ELSE Arrive("researchgate", param, "awaitCall", "google site:researchgate.net",
                param)

ResearchGateReturn(outcome) ==
    /\ aroute = "researchgate" /\ apc = "awaitCall"
    /\ IF ~outcome.ok
       THEN Finish(outcome, Ok200([results |-> <<>>]))
       ELSE IF Falsy(outcome.data.list)
       THEN Finish(outcome, Ok200([results |-> <<>>]))
       ELSE LET list == outcome.data.list.a
            IN Finish(outcome,
                      Ok200([results |->
                          [k \in 1..Len(list) |-> SiteResult(list[k])]]))

---------------------------------------------------------------------------
(* GET /api/research-data/papers *)

EuropePmcPaper(p) ==
    [title |-> p.title,
     authors |-> Str("Unknown authors"),
     link |-> Template(<<"https://europepmc.org/article/", Undefined, "/", p.key>>)]

PapersArrive(param) ==
    Arrive("papers", param, "awaitCall", "europepmc", OrElse(param, Str("oncology")))

PapersReturn(outcome) ==
    /\ aroute = "papers" /\ apc = "awaitCall"
    /\ IF ~outcome.ok
       THEN Finish(outcome, ErrorResponse(500, "Failed to fetch papers"))
       ELSE LET list == OrElse(outcome.data.list, Arr(<<>>)).a
            IN Finish(outcome,
                      Ok200([results |->
                          [k \in 1..Len(list) |-> EuropePmcPaper(list[k])]]))

---------------------------------------------------------------------------
(* GET /api/research-data/collaborations *)

Collaboration(c) ==
    [name |-> c.title, institution |-> Str("Unknown"), id |-> c.key]

CollaborationsArrive(param) ==
    Arrive("collaborations", param, "awaitCall", "author/search",
           OrElse(param, Str("AI research")))

CollaborationsReturn(outcome) ==
    /\ aroute = "collaborations" /\ apc = "awaitCall"
    /\ IF ~outcome.ok
       THEN Finish(outcome, ErrorResponse(500, "Failed to fetch collaborations"))
       ELSE LET list == OrElse(outcome.data.list, Arr(<<>>)).a
            IN Finish(outcome,
                      Ok200([results |->
                          [k \in 1..Len(list) |-> Collaboration(list[k])]]))

---------------------------------------------------------------------------
(* GET /api/research-data/grants *)

\* a variant that numbers the fallback ids from one
Grant_OneBased(query, g, k) ==
    [id |-> OrElse(g.key, Template(<<"grant-", k>>)),
     title |-> OrElse(g.title, Template(<<query, " Research Grant">>)),
     agency |-> Str("NIH"),
     organization |-> Str("Unknown Organization"),
     pi |-> Str("Unknown PI"),
     amount |-> Str("Not disclosed"),
     url |-> IF Falsy(g.key) THEN Str("#")
             ELSE Template(<<"https://reporter.nih.gov/project-details/", g.key>>)]

\* the record of the grant at position k of the upstream list (index k - 1)
Grant(query, g, k) ==
    [id |-> OrElse(g.key, Template(<<"grant-", k - 1>>)),
     title |-> OrElse(g.title, Template(<<query, " Research Grant">>)),
     agency |-> Str("NIH"),
     organization |-> Str("Unknown Organization"),
     pi |-> Str("Unknown PI"),
     amount |-> Str("Not disclosed"),
     url |-> IF Falsy(g.key) THEN Str("#")
             ELSE Template(<<"https://reporter.nih.gov/project-details/", g.key>>)]

Grants(query, list) == [k \in 1..Len(list) |-> Grant(query, list[k], k)]

GrantsArrive(param) ==
    Arrive("grants", param, "awaitCall", "projects/search",
           OrElse(param, Str("cancer")))

GrantsReturn(outcome) ==
    /\ aroute = "grants" /\ apc = "awaitCall"
    /\ IF ~outcome.ok
       THEN Finish(outcome, ErrorResponse(500, "Failed to fetch grants data"))
       ELSE IF Falsy(outcome.data.list)
       THEN Finish(outcome, Ok200([results |-> <<>>]))
       ELSE Finish(outcome,
                Ok200([results |->
                    Grants(OrElse(ain.param, Str("cancer")), outcome.data.list.a)]))

---------------------------------------------------------------------------
(* POST /api/ai-summary *)

Servers == {"index.js", "part_000"}
SymptomInputs == {Undefined, Str("   "), Str("fever and cough")}
WhitespaceTexts == {"", "   "}

\* String.prototype.trim on the texts used here; symptoms?.trim() of an absent
\* value is undefined
Trim(v) == IF v.t = "string" /\ v.s \in WhitespaceTexts THEN Str("") ELSE v

\* what the completion call answers: a failure, or a response with no choice,
\* with an empty text, or with a text
CompletionOutcomes ==
    {Failure, Success([choices |-> <<>>]),
     Success([choices |-> <<[content |-> Null]>>]),
     Success([choices |-> <<[content |-> Str("A summary")]>>])}

\* response?.choices?.[0]?.message?.content
Content(response) ==
    IF Len(response.choices) = 0 THEN Undefined ELSE response.choices[1].content

\* keySet: OPENAI_API_KEY is a non-empty text
AiSummaryArrive(server, keySet, symptoms) ==
    /\ apc = "idle"
    /\ aroute' = "ai-summary"
    /\ ain' = [param |-> symptoms, server |-> server, apiKey |-> keySet]
    /\ IF Falsy(Trim(symptoms))
       THEN /\ Respond(ErrorResponse(400, "Symptoms required"))
            /\ UNCHANGED <<aloc, calls, authVars>>
       ELSE IF server = "index.js" /\ ~keySet
       THEN /\ Respond(ErrorResponse(500, "OpenAI API key not set"))
            /\ UNCHANGED <<aloc, calls, authVars>>
       ELSE /\ calls' = Issued(calls, "completion", symptoms)
            /\ apc' = "awaitCall"
            /\ UNCHANGED <<aloc, aresp, authVars>>

\* index.js: the completion call returns; when it threw, the catch block
\* issues a second completion call and awaits it
AiSummaryReturn(outcome) ==
    /\ aroute = "ai-summary" /\ apc = "awaitCall" /\ ain.server = "index.js"
    /\ IF ~outcome.ok
       THEN /\ calls' = Issued(Returned(outcome), "completion", Str("Say hello"))
            /\ apc' = "awaitRetry"
            /\ UNCHANGED <<aroute, ain, aloc, aresp, authVars>>
       ELSE LET summary == OrElse(Content(outcome.data), Null)
            IN IF Falsy(summary)
               THEN Finish(outcome,
                           ErrorResponse(500, "OpenAI did not return a summary"))
               ELSE Finish(outcome, Ok200([summary |-> summary]))

\* index.js: the call of the catch block returns. When it threw, or its
\* response has no choice to read, the exception leaves the handler; else the
\* text is logged and the handler returns.  No response is written.
AiSummaryRetryReturn(outcome) ==
    /\ aroute = "ai-summary" /\ apc = "awaitRetry"
    /\ calls' = Returned(outcome)
    /\ apc' = IF ~outcome.ok \/ Len(outcome.data.choices) = 0
              THEN "rejected" ELSE "done"
    /\ UNCHANGED <<aroute, ain, aloc, aresp, authVars>>

\* part_000: the completion call returns
AiSummaryReturnPart000(outcome) ==
    /\ aroute = "ai-summary" /\ apc = "awaitCall" /\ ain.server = "part_000"
    /\ outcome.ok => ain.apiKey
    /\ IF ~outcome.ok
       THEN Finish(outcome, ErrorResponse(500, "OpenAI API call failed"))
       ELSE Finish(outcome,
                Ok200([summary |-> OrElse(Content(outcome.data),
                                          Str("No summary generated"))]))

---------------------------------------------------------------------------
(* The research-data specification *)

NextAgg ==
    \/ \E p \in ParamInputs : PubmedArrive(p)
    \/ \E o \in SearchOutcomes : PubmedSearchReturn(o)
    \/ \E o \in (IF apc = "awaitSummary" THEN SummaryOutcomes(aloc.ids) ELSE {}) :
           PubmedSummaryReturn(o)
    \/ \E p \in ParamInputs : TrialsArrive(p)
    \/ \E o \in ListOutcomes : TrialsReturn(o)
    \/ \E p \in ParamInputs : OrcidArrive(p)
    \/ \E o \in OrcidSearchOutcomes : OrcidSearchReturn(o)
    \/ \E o \in ProfileOutcomes : OrcidDetailReturn(o)
    \/ \E p \in ParamInputs : ScholarArrive(p)
    \/ \E o \in ListOutcomes : ScholarReturn(o)
    \/ \E p \in ParamInputs : ResearchGateArrive(p)
    \/ \E o \in ListOutcomes : ResearchGateReturn(o)
    \/ \E p \in ParamInputs : PapersArrive(p)
    \/ \E o \in ListOutcomes : PapersReturn(o)
    \/ \E p \in ParamInputs : CollaborationsArrive(p)
    \/ \E o \in ListOutcomes : CollaborationsReturn(o)
    \/ \E p \in ParamInputs : GrantsArrive(p)
    \/ \E o \in ListOutcomes : GrantsReturn(o)
    \/ \E f \in Servers, k \in BOOLEAN, s \in SymptomInputs :
           AiSummaryArrive(f, k, s)
    \/ \E o \in CompletionOutcomes : AiSummaryReturn(o)
    \/ \E o \in CompletionOutcomes : AiSummaryRetryReturn(o)
    \/ \E o \in CompletionOutcomes : AiSummaryReturnPart000(o)

SpecAgg == Init /\ [][NextAgg]_vars


---------------------------------------------------------------------------
(* Claims about the Auth routes *)

Registers == { r \in ReqIds : reqs[r].route = "register" }
Logins == { r \in ReqIds : reqs[r].route = "login" }
Answered(r) == reqs[r].pc = "done"
Status(r) == reqs[r].resp[1].status
Conflict == ErrorResponse(400, "Email already registered")

\* the registrations with the email of r that had been answered 201 when r
\* arrived
RegisteredBefore(r) ==
    { q \in reqs[r].after : reqs[q].body.email = reqs[r].body.email }

\* C1: once a register request with email e has been answered 201, every
\* register request with email e that arrives later is answered 400 "Email
\* already registered", whatever its other fields, and writes nothing to the
\* store.
C1_DuplicateEmailConflict ==
    \A r \in Registers :
        RegisteredBefore(r) # {} =>
            /\ Answered(r)
            /\ reqs[r].resp = <<Conflict>>
            /\ reqs[r].writes = 0

\* C1's case: a second registration of an email, with another userType and
\* another password, has been turned down
C1_Witness ==
    \E r \in Registers : \E q \in RegisteredBefore(r) :
        /\ Answered(r)
        /\ reqs[r].body.userType # reqs[q].body.userType
        /\ reqs[r].body.password # reqs[q].body.password

\* C2 as stated: a register request whose userType is no member of the enum
\* is answered 400 with the validation error "Invalid userType", and writes
\* nothing to the store.
C2_InvalidUserTypeIsValidationError ==
    \A r \in Registers :
        reqs[r].body.userType \notin validUserTypes =>
            /\ Answered(r)
            /\ reqs[r].resp = <<ErrorResponse(400, "Invalid userType")>>
            /\ reqs[r].writes = 0

\* C2 as amended: a register request whose userType is no member of the enum
\* is answered 400 and writes nothing to the store; the answer is the
\* validation error "Invalid userType" when the email was not registered at
\* the lookup, and the conflict error when it was.
C2_InvalidUserTypeRejected ==
    \A r \in Registers :
        reqs[r].body.userType \notin validUserTypes =>
            /\ Answered(r)
            /\ reqs[r].writes = 0
            /\ reqs[r].resp =
                   IF RegisteredBefore(r) = {}
                   THEN <<ErrorResponse(400, "Invalid userType")>>
                   ELSE <<Conflict>>

\* C2's case: a DOCTOR registration of a free email has been turned down
C2_Witness ==
    \E r \in Registers :
        /\ reqs[r].body.userType = "DOCTOR"
        /\ RegisteredBefore(r) = {}
        /\ Answered(r)
        /\ store = {}

\* C3: every persisted user has its userType and gender in the enums; a
\* PATIENT has fieldType null, a RESEARCHER has age, condition and allergies
\* null.
C3_TypedFieldsExclusive ==
    \A u \in store :
        /\ u.userType \in validUserTypes
        /\ u.gender \in validGenders
        /\ u.userType = "PATIENT" => u.fieldType = Null
        /\ u.userType = "RESEARCHER" =>
               u.age = Null /\ u.condition = Null /\ u.allergies = Null

\* C3's case: a patient and a researcher are persisted, both registered with
\* all the typed extras supplied
C3_Witness ==
    \E p, q \in Registers :
        /\ Answered(p) /\ Status(p) = 201 /\ reqs[p].body.userType = "PATIENT"
        /\ reqs[p].body.fieldType # Undefined
        /\ Answered(q) /\ Status(q) = 201 /\ reqs[q].body.userType = "RESEARCHER"
        /\ reqs[q].body.age # Undefined
        /\ Cardinality(store) = 2

EmailUnique == \A u, v \in store : u.email = v.email => u = v

\* C4: no two persisted users have the same email, in every interleaving of
\* the requests, and a persisted record is never changed or removed.
C4_EmailUniqueAndImmutable ==
    /\ []EmailUnique
    /\ [][\A u \in store : u \in store']_vars

\* C4's case: two registrations of one email were both past their lookup
\* when the first created its user; the second create was refused
C4_Witness ==
    \E p, q \in Registers :
        /\ p # q
        /\ reqs[p].body.email = reqs[q].body.email
        /\ reqs[p].body # reqs[q].body
        /\ Answered(p) /\ Status(p) = 201
        /\ Answered(q) /\ Status(q) = 500
        /\ Cardinality(store) = 1

\* C5: login answers 404 "User not found" when no user has the email, 400
\* "Invalid credentials" when the user exists and the password is not the
\* one registered, and issues a token only when the user exists and the
\* password is the one registered; a failure response holds an error string
\* and nothing else.
C5_LoginOutcomes ==
    \A r \in Logins :
        LET b == reqs[r].body
            known == RegisteredBefore(r)
            body == reqs[r].resp[1].body
        IN /\ Answered(r)
           /\ Len(reqs[r].resp) = 1
           /\ known = {} => reqs[r].resp[1] = ErrorResponse(404, "User not found")
           /\ (known # {} /\ \A q \in known : reqs[q].body.password # b.password)
                  => reqs[r].resp[1] = ErrorResponse(400, "Invalid credentials")
           /\ "token" \in DOMAIN body <=>
                  \E q \in known : reqs[q].body.password = b.password
           /\ Status(r) # 200 => DOMAIN body = {"error"}

\* C5's case: a login with a registered email and another password
C5_Witness ==
    \E r \in Logins :
        /\ RegisteredBefore(r) # {}
        /\ Status(r) = 400

\* C6: a token issued by login embeds exactly the id, email and userType of
\* the stored user of the login's email, is issued at the instant of the
\* login and expires 7 days later: at every instant after that it is
\* expired (its exp is not in the future).
C6_TokenClaimsAndExpiry ==
    \A r \in Logins :
        Status(r) = 200 =>
            LET token == reqs[r].resp[1].body.token
                q == CHOOSE q \in RegisteredBefore(r) : TRUE
                user == reqs[q].resp[1].body.user
            IN /\ user \in store
               /\ user.email = reqs[r].body.email
               /\ token.claims = [id |-> user.id, email |-> user.email,
                                  userType |-> user.userType]
               /\ token.iat = reqs[r].body.at
               /\ token.exp = reqs[r].body.at + 7
               /\ \A t \in 0..(MaxTime + 9) :
                      t > reqs[r].body.at + 7 => t >= token.exp

\* C6's case: a registered user has logged in at the latest instant
C6_Witness ==
    \E r \in Logins :
        /\ Status(r) = 200
        /\ reqs[r].resp[1].body.token.claims.email = reqs[r].body.email
        /\ reqs[r].body.at = MaxTime

---------------------------------------------------------------------------
(* Claims about the research-data routes *)

AggregatorRoutes ==
    {"pubmed", "trials", "orcid", "scholar", "researchgate", "papers",
     "collaborations", "grants"}

\* the fixed messages of the handlers' catch blocks
GenericMessages ==
    {"PubMed fetch failed", "Failed to fetch Clinical Trials",
     "ORCID fetch failed", "Scholar fetch failed", "Failed to fetch papers",
     "Failed to fetch collaborations", "Failed to fetch grants data"}

SomeCallFailed == \E i \in 1..Len(calls) : calls[i].outcome = Failure

GenericFailureAnswer ==
    /\ apc = "done"
    /\ Len(aresp) = 1
    /\ aresp[1].status = 500
    /\ DOMAIN aresp[1].body = {"error"}
    /\ aresp[1].body.error \in GenericMessages
    /\ aresp[1].body.error # Failure.body

\* C7: a research-data request one of whose upstream calls failed at the
\* transport level is answered exactly once, with status 500 and the fixed
\* message of its handler: no partial results, nothing of the upstream's
\* error body.
C7_TransportFailureIs500 ==
    (aroute \in AggregatorRoutes /\ SomeCallFailed) => GenericFailureAnswer

\* the same of every research-data route but the site-scoped search
C7_ExceptSiteScopedSearch ==
    (aroute \in AggregatorRoutes \ {"researchgate"} /\ SomeCallFailed)
        => GenericFailureAnswer

\* the first completion call has returned, and it threw or gave no text
FirstCompletionFailed ==
    /\ aroute = "ai-summary"
    /\ Len(calls) >= 1
    /\ calls[1].outcome # InFlight
    /\ \/ calls[1].outcome = Failure
       \/ calls[1].outcome.ok /\ Falsy(Content(calls[1].outcome.data))

\* C8: a summary request with a non-empty input and a configured key whose
\* completion call throws or returns no text ends with exactly one response,
\* a 500 with an error envelope; no exception leaves the handler, and the
\* handler does not return without having answered.
C8_SummaryFailureIs500 ==
    (FirstCompletionFailed /\ ain.apiKey) =>
        /\ apc # "rejected"
        /\ apc = "done" =>
               /\ Len(aresp) = 1
               /\ aresp[1].status = 500
               /\ DOMAIN aresp[1].body = {"error"}

\* the id list the search call returned
ReturnedIds ==
    IF calls[1].outcome.data.idlist = Undefined THEN <<>>
    ELSE calls[1].outcome.data.idlist.a

SearchSucceeded ==
    /\ Len(calls) >= 1
    /\ calls[1].outcome # InFlight
    /\ calls[1].outcome.ok

CallsOfKind(kind) == { i \in 1..Len(calls) : calls[i].kind = kind }

\* C9: a literature request whose id search returns no ids (an empty or an
\* absent list) is answered 200 {results: []} and issues no summary call; when
\* ids are returned the summary call is issued exactly once, after the search
\* call has returned, for those ids.
C9_EmptyIdsShortCircuit ==
    aroute = "pubmed" =>
        /\ \A i \in CallsOfKind("esummary") :
               i = 2 /\ calls[1].kind = "esearch" /\ SearchSucceeded
        /\ (SearchSucceeded /\ ReturnedIds = <<>>) =>
               /\ CallsOfKind("esummary") = {}
               /\ apc = "done"
               /\ aresp = <<Ok200([results |-> <<>>])>>
        /\ (SearchSucceeded /\ ReturnedIds # <<>>) =>
               /\ CallsOfKind("esummary") = {2}
               /\ calls[2].arg = ReturnedIds

\* C9's case: the search returned an absent id list and the request is answered
C9_Witness ==
    /\ aroute = "pubmed"
    /\ SearchSucceeded
    /\ calls[1].outcome.data.idlist = Undefined
    /\ Len(aresp) = 1

\* the candidates the registry search returned
ReturnedCandidates ==
    IF calls[1].outcome.data.result = Undefined THEN <<>>
    ELSE calls[1].outcome.data.result.a

\* C10: a registry request issues at most 5 detail lookups however many
\* candidates the search returns, one at a time, each for a candidate among
\* the first 5 results, and its answer holds at most one record per lookup.
C10_AtMostFiveDetailLookups ==
    aroute = "orcid" =>
        /\ Cardinality(CallsOfKind("detail")) <= 5
        /\ Cardinality(Pending) <= 1
        /\ \A i \in CallsOfKind("detail") :
               /\ SearchSucceeded
               /\ \E k \in 1..5 :
                      /\ k <= Len(ReturnedCandidates)
                      /\ ReturnedCandidates[k].path = calls[i].arg
        /\ (Len(aresp) >= 1 /\ aresp[1].status = 200) =>
               Len(aresp[1].body.result) <= Cardinality(CallsOfKind("detail"))

\* C10's case: the search returned more than 5 candidates, each with an
\* identifier, and the request is answered with 5 records
C10_Witness ==
    /\ aroute = "orcid"
    /\ SearchSucceeded
    /\ Len(ReturnedCandidates) > 5
    /\ \A k \in 1..Len(ReturnedCandidates) : ReturnedCandidates[k].path # Undefined
    /\ Len(aresp) = 1
    /\ aresp[1].status = 200
    /\ Len(aresp[1].body.result) = 5

----------------------------------------------------------------------------
(* Grants *)

\* the upstream result list of a grants request whose call succeeded
ReturnedGrants ==
    IF calls[1].outcome.data.list = Undefined THEN <<>>
    ELSE calls[1].outcome.data.list.a

\* C11: a grants request whose upstream call succeeds is answered 200 with a
\* list of the same length as the upstream list, in the upstream order: the
\* record at position i (zero-based) has the id of upstream item i when that
\* item has a project_num, with the project-details url, and otherwise has
\* id "grant-" followed by i and url "#"; its title is that of item i when
\* the item has one.
C11_GrantIdsByPosition ==
    (aroute = "grants" /\ SearchSucceeded /\ Len(aresp) >= 1) =>
        /\ Len(aresp) = 1
        /\ aresp[1].status = 200
        /\ Len(aresp[1].body.results) = Len(ReturnedGrants)
        /\ \A k \in 1..Len(ReturnedGrants) :
               LET g == ReturnedGrants[k]
                   out == aresp[1].body.results[k]
               IN /\ g.key # Undefined =>
                         /\ out.id = g.key
                         /\ out.url = Template(<<"https://reporter.nih.gov/project-details/", g.key>>)
                  /\ g.key = Undefined =>
                         /\ out.id = Template(<<"grant-", k - 1>>)
                         /\ out.url = Str("#")
                  /\ g.title # Undefined => out.title = g.title

\* C11's case: the upstream list holds an item with a project_num followed
\* by one without, and the request is answered with both records
C11_Witness ==
    /\ aroute = "grants"
    /\ SearchSucceeded
    /\ Len(ReturnedGrants) = 2
    /\ ReturnedGrants[1].key # Undefined
    /\ ReturnedGrants[2].key = Undefined
    /\ Len(aresp) = 1
    /\ aresp[1].status = 200
    /\ aresp[1].body.results[1].id = ReturnedGrants[1].key
    /\ aresp[1].body.results[2].id = Template(<<"grant-", 1>>)
    /\ aresp[1].body.results[2].url = Str("#")

----------------------------------------------------------------------------
(* Concurrent registration *)

\* the register requests that carry email e and otherwise valid fields
ValidRegisters(e) ==
    { r \in Registers : /\ reqs[r].body.email = e
                        /\ reqs[r].body.userType \in validUserTypes
                        /\ reqs[r].body.gender \in validGenders }

\* C12: when all the register requests that carry the same email and
\* otherwise valid fields have been answered, in whatever order their lookups
\* and creates were interleaved, exactly one of them was answered 201 and
\* every other one was answered 400 "Email already registered"; none got
\* another status.
C12_ExactlyOneCreatedOthersConflict ==
    \A e \in Emails :
        (ValidRegisters(e) # {} /\ \A r \in ValidRegisters(e) : Answered(r)) =>
            /\ Cardinality({ r \in ValidRegisters(e) : Status(r) = 201 }) = 1
            /\ \A r \in ValidRegisters(e) :
                   Status(r) # 201 => reqs[r].resp = <<Conflict>>

=============================================================================
